---- MODULE Spec2Model ----
(***************************************************************************)
(* Model of the `graphcool deploy` command                                 *)
(* (cli/packages/graphcool-cli-core/src/commands/deploy/index.ts):         *)
(* target resolution, project creation, the deploy cycle with its          *)
(* `deploying` flag, result reporting, and the chokidar watch callbacks.   *)
(*                                                                         *)
(* JavaScript runs one task at a time and a task is suspended only at an   *)
(* `await` of a remote or file-system call.  Each action below is the      *)
(* synchronous stretch of code between two such suspension points.         *)
(***************************************************************************)
EXTENDS Integers, Sequences, FiniteSets, TLC

\* ---------------------------------------------------------------- bounds
\* number of file-change events the watcher delivers in one run
MaxEvents == 2
\* longest errors list a push returns
MaxErrs == 2
\* longest project file, in tokens
MaxLen == 3

\* ---------------------------------------------------------------- values
\* JavaScript `undefined` for string-valued flags and variables
Undefined == "undefined"

\* a string is truthy unless it is undefined or empty
Truthy(s) == s # Undefined /\ s # ""

\* `a || b` on strings
OrElse(a, b) == IF Truthy(a) THEN a ELSE b

SharedCluster == "shared-eu-west-1"
LocalCluster == "local"
Clusters == {SharedCluster, LocalCluster}

\* target names the operator can pass with --target, and the names in .graphcoolrc
TargetNames == {"prod", "dev"}

\* id of the project already registered locally, and the id the server allocates
ExistingProjectId == "p1"
CreatedProjectId == "p2"

\* the definition read from disk and the definitions the server may send back
LocalDefinition == "local"
ServerDefinitions == {"srv1", "srv2"}

\* error descriptions; the first one includes the text `destructive changes`
DestructiveDescription == "There are destructive changes"
OtherDescription == "Syntax error"
Descriptions == {DestructiveDescription, OtherDescription}

\* the migrationMessages lists a push returns
MessageLists == {<<>>, <<"created type">>}

\* `target` / `foundTarget` when no target was found
NoTarget == [cluster |-> Undefined, id |-> Undefined]

\* sequences over S of length at most n
RECURSIVE SeqsUpTo(_, _)
SeqsUpTo(S, n) ==
  IF n = 0 THEN {<<>>}
  ELSE LET shorter == SeqsUpTo(S, n - 1)
       IN shorter \cup {Append(s, e) : s \in {t \in shorter : Len(t) = n - 1}, e \in S}

\* an optional list field of the migration result: absent, or present with a list
Absent == [present |-> FALSE, list |-> <<>>]
Present(l) == [present |-> TRUE, list |-> l]

\* the results `client.push` can resolve with; the server sends its definition
\* along with the messages
MigrationResults ==
  LET msgs == {Absent} \cup {Present(l) : l \in MessageLists}
      errs == {Absent} \cup {Present(l) : l \in SeqsUpTo(Descriptions, MaxErrs)}
  IN { r \in [migrationMessages : msgs, errors : errs,
              projectDefinition : ServerDefinitions \cup {Undefined}] :
         (r.projectDefinition = Undefined) <=> (r.migrationMessages.list = <<>>) }

\* no result at hand
NoResult == [migrationMessages |-> Absent, errors |-> Absent, projectDefinition |-> ""]

\* ---------------------------------------------------------------- console lines
UpToDateLine == <<"log", "Everything up-to-date.">>
EndpointLine(projectId) == <<"log", "Endpoint: " \o "https://api.graph.cool/simple/v1/" \o projectId>>
CreatedHeader == <<"log", "Success! Created the following service:">>
UpdatedErrorHeader == <<"log", "Error! Here are the potential changes:">>
UpdatedSuccessHeader == <<"log", "Success! Here is what changed:">>
IssuesHeader == <<"log", "There are issues with the new service definition:">>
EmptyLine == <<"log", "">>
ForceHint == <<"log", "Your changes might result in data loss. Use `graphcool deploy --force` if you know what you're doing!">>
WatchingLine == <<"log", "Watching for change...">>

\* out.migration.printMessages / printErrors: one line per element
RECURSIVE PrintAll(_, _)
PrintAll(kind, list) ==
  IF list = <<>> THEN <<>> ELSE <<(<<kind, Head(list)>>)>> \o PrintAll(kind, Tail(list))

printMessages(list) == PrintAll("message", list)
printErrors(list) == PrintAll("error", list)

\* String.prototype.includes(`destructive changes`) on an error description
IncludesDestructive(description) == description = DestructiveDescription

\* ---------------------------------------------------------------- result handling
\* the up-to-date branch with `&&` for `||`: taken for absent lists only
NoActionRequiredAbsentOnly(r) ==
  /\ (~r.migrationMessages.present /\ Len(r.migrationMessages.list) = 0)
  /\ (~r.errors.present /\ Len(r.errors.list) = 0)

\* deploy(), lines 195-199: neither messages nor errors (absent counts as empty)
NoActionRequired(r) ==
  /\ (~r.migrationMessages.present \/ Len(r.migrationMessages.list) = 0)
  /\ (~r.errors.present \/ Len(r.errors.list) = 0)

\* deploy(), lines 233-237: the guard of the data-loss hint looks at errors[0] only
DestructiveChangesDetected(r) ==
  /\ r.errors.present
  /\ Len(r.errors.list) > 0
  /\ IncludesDestructive(r.errors.list[1])

\* deploy(), lines 208-221 with the two texts of lines 213-215 exchanged
MessagesSectionFramingSwapped(r, projectIsNew) ==
  IF ~r.migrationMessages.present
  THEN [threw |-> TRUE, lines |-> <<>>, set |-> FALSE]
  ELSE IF Len(r.migrationMessages.list) > 0
  THEN IF projectIsNew
       THEN [threw |-> FALSE,
             lines |-> <<CreatedHeader>> \o printMessages(r.migrationMessages.list),
             set |-> TRUE]
       ELSE IF ~r.errors.present
       THEN [threw |-> TRUE, lines |-> <<>>, set |-> FALSE]
       ELSE [threw |-> FALSE,
             lines |-> <<(IF Len(r.errors.list) > 0 THEN UpdatedSuccessHeader
                                                     ELSE UpdatedErrorHeader)>>
                       \o printMessages(r.migrationMessages.list),
             set |-> TRUE]
  ELSE [threw |-> FALSE, lines |-> <<>>, set |-> FALSE]

\* lines 208-221 with definition.set called only when there are no errors
MessagesSectionSetOnSuccess(r, projectIsNew) ==
  IF ~r.migrationMessages.present
  THEN [threw |-> TRUE, lines |-> <<>>, set |-> FALSE]
  ELSE IF Len(r.migrationMessages.list) > 0
  THEN IF projectIsNew
       THEN [threw |-> FALSE,
             lines |-> <<CreatedHeader>> \o printMessages(r.migrationMessages.list),
             set |-> r.errors.list = <<>>]
       ELSE IF ~r.errors.present
       THEN [threw |-> TRUE, lines |-> <<>>, set |-> FALSE]
       ELSE [threw |-> FALSE,
             lines |-> <<(IF Len(r.errors.list) > 0 THEN UpdatedErrorHeader
                                                     ELSE UpdatedSuccessHeader)>>
                       \o printMessages(r.migrationMessages.list),
             set |-> r.errors.list = <<>>]
  ELSE [threw |-> FALSE, lines |-> <<>>, set |-> FALSE]

\* deploy(), lines 208-221: header, messages and definition.set.
\* `.length` of an absent list throws a TypeError; what was done before stays done.
MessagesSection(r, projectIsNew) ==
  IF ~r.migrationMessages.present
  THEN [threw |-> TRUE, lines |-> <<>>, set |-> FALSE]
  ELSE IF Len(r.migrationMessages.list) > 0
  THEN IF projectIsNew
       THEN [threw |-> FALSE,
             lines |-> <<CreatedHeader>> \o printMessages(r.migrationMessages.list),
             set |-> TRUE]
       ELSE IF ~r.errors.present
       THEN [threw |-> TRUE, lines |-> <<>>, set |-> FALSE]
       ELSE [threw |-> FALSE,
             lines |-> <<(IF Len(r.errors.list) > 0 THEN UpdatedErrorHeader
                                                     ELSE UpdatedSuccessHeader)>>
                       \o printMessages(r.migrationMessages.list),
             set |-> TRUE]
  ELSE [threw |-> FALSE, lines |-> <<>>, set |-> FALSE]

\* deploy(), lines 223-231: the list of errors
ErrorsSection(r) ==
  IF ~r.errors.present
  THEN [threw |-> TRUE, lines |-> <<>>]
  ELSE IF Len(r.errors.list) > 0
  THEN [threw |-> FALSE, lines |-> <<IssuesHeader>> \o printErrors(r.errors.list) \o <<EmptyLine>>]
  ELSE [threw |-> FALSE, lines |-> <<>>]

\* deploy(), lines 233-245: the data-loss hint
HintSection(r) == IF DestructiveChangesDetected(r) THEN <<ForceHint>> ELSE <<>>

\* deploy(), lines 192-248: everything that runs once the push has resolved with r.
\*   lines:   what is written to the console, in order
\*   set:     definition.set(r.projectDefinition) was called
\*   cleared: `this.deploying = false` was executed
\*   threw:   the function ended with an exception instead of returning
handleResult(r, projectIsNew, projectId) ==
  IF NoActionRequired(r)
  THEN [lines |-> <<UpToDateLine, EndpointLine(projectId)>>,
        set |-> FALSE, cleared |-> TRUE, threw |-> FALSE]
  ELSE LET m == MessagesSection(r, projectIsNew) IN
       IF m.threw
       THEN [lines |-> m.lines, set |-> m.set, cleared |-> FALSE, threw |-> TRUE]
       ELSE LET e == ErrorsSection(r) IN
            IF e.threw
            THEN [lines |-> m.lines \o e.lines, set |-> m.set, cleared |-> FALSE, threw |-> TRUE]
            ELSE [lines |-> m.lines \o e.lines \o HintSection(r) \o <<EndpointLine(projectId)>>,
                  set |-> m.set, cleared |-> TRUE, threw |-> FALSE]

\* ---------------------------------------------------------------- environment (env, client)
isSharedCluster(c) == c = SharedCluster

getDefaultTargetName(c) == IF isSharedCluster(c) THEN "prod" ELSE "dev"

getRegionFromCluster(c) == IF isSharedCluster(c) THEN "eu-west-1" ELSE Undefined

\* keys of the `targets` object of .graphcoolrc; a key may be the text `undefined`
TargetKeys == TargetNames \cup {Undefined}

\* env.getTargetWithName: the entry stored under the name, the default target
\* when no name is given, nothing when there is no such entry
getTargetWithName(e, name) ==
  LET key == OrElse(name, e.default) IN
  IF key \in DOMAIN e.targets /\ e.targets[key] # NoTarget
  THEN [found |-> TRUE, targetName |-> key, target |-> e.targets[key]]
  ELSE [found |-> FALSE, targetName |-> Undefined, target |-> NoTarget]

\* env.setActiveCluster
setActiveCluster(e, c) == [e EXCEPT !.activeCluster = c]

\* env.setLocalTarget(name, `${cluster}/${projectId}`): the value is split at the slash
setLocalTarget(e, name, c, id) ==
  [e EXCEPT !.targets = [@ EXCEPT ![name] = [cluster |-> c, id |-> id]]]

\* env.setLocalDefaultTarget
setLocalDefaultTarget(e, name) == [e EXCEPT !.default = name]

\* sillyName(): some generated placeholder
GeneratedNames == {"Sillyname One"}

\* the local configurations a run can start from
NoTargets == [k \in TargetKeys |-> NoTarget]
ProdTarget == [cluster |-> SharedCluster, id |-> ExistingProjectId]
InitialEnvs ==
  { [activeCluster |-> SharedCluster, targets |-> NoTargets, default |-> Undefined],
    [activeCluster |-> SharedCluster, targets |-> [NoTargets EXCEPT !["prod"] = ProdTarget],
     default |-> Undefined],
    [activeCluster |-> SharedCluster, targets |-> [NoTargets EXCEPT !["prod"] = ProdTarget],
     default |-> "prod"] }

\* the flags of one invocation
FlagSets ==
  [ target : TargetNames \cup {Undefined},
    force : BOOLEAN,
    watch : BOOLEAN,
    newService : {Undefined, "my-service"},
    newServiceCluster : {Undefined, LocalCluster},
    alias : {"my-alias"} ]


\* ---------------------------------------------------------------- utils/file.ts
\* A project file is a sequence of tokens, each standing for a run of characters.
\* the literal texts of the two regular expressions
ProjectPrefix == "# project: "
VersionPrefix == "# version: "
\* an id line without the blank after the colon: neither expression matches it
NearPrefix == "# project:"
\* the token indexOf looks for; its characters are lowercase letters
TypeToken == "type"
\* runs of characters of the class [a-z0-9]
LowerAlnum == {"a", "1", TypeToken}
\* a character outside [a-z0-9], and the line break
UpperCase == "A"
NewLine == "\n"
Tokens == {ProjectPrefix, VersionPrefix, NearPrefix, UpperCase, NewLine} \cup LowerAlnum
FileContents == SeqsUpTo(Tokens, MaxLen)

\* the string a sequence of tokens stands for
RECURSIVE Text(_)
Text(c) == IF c = <<>> THEN "" ELSE Head(c) \o Text(Tail(c))

\* String.prototype.indexOf: position of the first occurrence counted from 0, or -1
IndexOf(c, tok) ==
  IF \E k \in 1..Len(c) : c[k] = tok
  THEN (CHOOSE k \in 1..Len(c) : c[k] = tok /\ \A j \in 1..(k - 1) : c[j] # tok) - 1
  ELSE -1

\* String.prototype.substring: an argument below 0 counts as 0, one above the
\* length as the length, and the two are exchanged when start > end
ClampIndex(i, n) == IF i < 0 THEN 0 ELSE IF i > n THEN n ELSE i
Substring(c, start, end) ==
  LET a == ClampIndex(start, Len(c))
      b == ClampIndex(end, Len(c))
  IN IF a <= b THEN SubSeq(c, a + 1, b) ELSE SubSeq(c, b + 1, a)

\* ([a-z0-9]*) applied at position k (from 1): the longest run, possibly empty
RECURSIVE Capture(_, _)
Capture(c, k) ==
  IF k <= Len(c) /\ c[k] \in LowerAlnum THEN <<c[k]>> \o Capture(c, k + 1) ELSE <<>>

\* contents.match(/<prefix>([a-z0-9]*)/): null (here <<>>) when the prefix does not
\* occur, else the array of the whole match and the capture group
Match(c, prefix) ==
  LET at == IndexOf(c, prefix)
  IN IF at = -1 THEN <<>>
     ELSE LET group == Text(Capture(c, at + 2)) IN <<prefix \o group, group>>

\* lines 34-43
readProjectIdFromProjectFile(c) ==
  LET matches == Match(c, ProjectPrefix)
  IN IF matches = <<>> \/ Len(matches) # 2 THEN Undefined ELSE matches[2]

\* lines 45-54
readVersionFromProjectFile(c) ==
  LET matches == Match(c, VersionPrefix)
  IN IF matches = <<>> \/ Len(matches) # 2 THEN Undefined ELSE matches[2]

\* lines 56-62
readDataModelFromProjectFile(c) ==
  LET dataModelStartIndex == IndexOf(c, TypeToken)
  IN Text(Substring(c, dataModelStartIndex, Len(c)))

\* readProjectInfoFromProjectFile returned undefined
NoInfo == [defined |-> FALSE, projectId |-> Undefined, version |-> Undefined, schema |-> ""]

\* lines 21-32
readProjectInfoFromProjectFile(c) ==
  LET id == readProjectIdFromProjectFile(c)
  IN IF ~Truthy(id) THEN NoInfo
     ELSE [defined |-> TRUE, projectId |-> id,
           version |-> readVersionFromProjectFile(c),
           schema |-> readDataModelFromProjectFile(c)]

\* no read function has run
NoRead == [op |-> "none", value |-> Undefined, info |-> NoInfo]

\* ---------------------------------------------------------------- state
VARIABLES
  flags,        \* this.flags
  env,          \* this.env: activeCluster, targets, default
  rcFile,       \* .graphcoolrc on disk: targets, default, and how often it was saved
  pc,           \* where run() is
  failure,      \* the error run() ended with, "" if none
  targetName,   \* run(): let targetName
  target,       \* run(): let target
  cluster,      \* run(): let cluster
  isLocal,      \* run(): const isLocal
  projectId,    \* run(): let projectId
  projectIsNew, \* run(): let projectIsNew
  lookedUp,     \* env.getTargetWithName has been called
  created,      \* the calls of client.createProject, in order
  deploying,    \* this.deploying
  definition,   \* this.definition.definition
  action,       \* this.out.action: text of the running progress indicator, "" if none
  out,          \* the console: the lines the last step wrote, one element per line
  migrationResult, \* deploy(): the result the last step handled, NoResult if none
  pushes,       \* the calls of client.push, in order
  tasks,        \* the setImmediate callbacks of the watcher, in order of scheduling
  contents,     \* utils/file.ts: what resolver.read(path) returns for the project file
  readResult    \* utils/file.ts: which read function ran last and what it returned

vars == <<flags, env, rcFile, pc, failure, targetName, target, cluster, isLocal, projectId,
          projectIsNew, lookedUp, created, deploying, definition, action, out,
          migrationResult, pushes, tasks, contents, readResult>>

fileVars == <<contents, readResult>>

runVars == <<targetName, target, cluster, isLocal, projectId, projectIsNew>>

Init ==
  /\ flags \in FlagSets
  /\ env \in InitialEnvs
  /\ rcFile = [saves |-> 0, targets |-> env.targets, default |-> env.default]
  /\ pc = "start"
  /\ failure = ""
  /\ targetName = Undefined
  /\ target = NoTarget
  /\ cluster = Undefined
  /\ isLocal = FALSE
  /\ projectId = Undefined
  /\ projectIsNew = FALSE
  /\ lookedUp = FALSE
  /\ created = <<>>
  /\ deploying = FALSE
  /\ definition = Undefined
  /\ action = ""
  /\ out = <<>>
  /\ migrationResult = NoResult
  /\ pushes = <<>>
  /\ tasks = <<>>
  /\ contents = <<>>
  /\ readResult = NoRead

\* ---------------------------------------------------------------- run()
\* line 70 without `this.flags.target ||`: --target is ignored for a new service
newTargetNameDefaultOnly(c) == getDefaultTargetName(c)

\* run(), line 70: the target name of a new service
newTargetName(c) == OrElse(flags.target, getDefaultTargetName(c))

\* run(), lines 57-77: choose the cluster and the target name, or look the target up
Resolve ==
  /\ pc = "start"
  /\ IF Truthy(flags.newService)
     THEN LET e == IF Truthy(flags.newServiceCluster)
                   THEN setActiveCluster(env, flags.newServiceCluster)
                   ELSE env
          IN /\ env' = e
             /\ cluster' = e.activeCluster
             /\ targetName' = newTargetName(e.activeCluster)
             /\ UNCHANGED <<target, lookedUp>>
     ELSE LET foundTarget == getTargetWithName(env, flags.target)
          IN /\ lookedUp' = TRUE
             /\ IF foundTarget.found
                THEN /\ targetName' = foundTarget.targetName
                     /\ target' = foundTarget.target
                ELSE UNCHANGED <<targetName, target>>
             /\ UNCHANGED <<env, cluster>>
  /\ pc' = "auth"
  /\ out' = <<>>
  /\ migrationResult' = NoResult
  /\ UNCHANGED <<failure, flags, rcFile, isLocal, projectId, projectIsNew, created, deploying,
                 definition, action, pushes, tasks>>
  /\ UNCHANGED fileVars

\* run(), line 79: auth.ensureAuth() resolves
EnsureAuth ==
  /\ pc = "auth"
  /\ pc' = "load"
  /\ out' = <<>>
  /\ migrationResult' = NoResult
  /\ UNCHANGED <<failure, flags, env, rcFile, runVars, lookedUp, created, deploying, definition,
                 action, pushes, tasks>>
  /\ UNCHANGED fileVars

\* run(), line 79: auth.ensureAuth() rejects; run() ends with the error
EnsureAuthFails ==
  /\ pc = "auth"
  /\ pc' = "failed"
  /\ failure' = "AuthError"
  /\ out' = <<>>
  /\ migrationResult' = NoResult
  /\ UNCHANGED <<flags, env, rcFile, runVars, lookedUp, created, deploying, definition,
                 action, pushes, tasks>>
  /\ UNCHANGED fileVars

\* run(), line 117: best guess for the project name
projectNameOf(tn) == OrElse(flags.newService, tn)

\* deploy(), lines 174-184: the text of the progress indicator
DeployingText(isNew, tn, local, name) ==
  LET localNote == IF local THEN " locally" ELSE "" IN
  IF isNew THEN "Deploying" \o localNote
  ELSE "Deploying to " \o name \o " with target " \o tn \o localNote

\* line 186-191 with the third argument true: every push is a dry run
PushCallDryRun(id, def) ==
  [projectId |-> id, force |-> flags.force, dryRun |-> TRUE, definition |-> def]

\* deploy(), lines 186-191: the arguments of client.push
PushCall(id, def) ==
  [projectId |-> id, force |-> flags.force, dryRun |-> FALSE, definition |-> def]

\* deploy(), lines 173-191: from the call of deploy() to the suspension in client.push
StartDeploy(isNew, tn, id, local, def) ==
  /\ deploying' = TRUE
  /\ action' = DeployingText(isNew, tn, local, projectNameOf(tn))
  /\ pushes' = Append(pushes, PushCall(id, def))

\* line 91 taken whether or not a target was found
mustCreateAlways(t) == TRUE

\* run(), line 91: without a target a project has to be created
mustCreate(t) == t = NoTarget

\* run(), lines 80-100 and 113-119: definition.load() resolves; the cluster is fixed;
\* without a target createProject() is entered and suspends in client.createProject,
\* with a target deploy() is entered and suspends in client.push
LoadDefinition ==
  /\ pc = "load"
  /\ definition' = LocalDefinition
  /\ LET c == IF Truthy(cluster) THEN cluster
              ELSE IF target # NoTarget THEN target.cluster ELSE env.activeCluster
         local == ~isSharedCluster(c)
     IN /\ cluster' = c
        /\ isLocal' = local
        /\ IF mustCreate(target)
           THEN IF target # NoTarget
                THEN \* out.error(new ServiceDoesntExistError(target)) ends the command
                     /\ out' = <<(<<"error", "ServiceDoesntExistError">>)>>
                     /\ pc' = "failed"
                     /\ failure' = "ServiceDoesntExistError"
                     /\ UNCHANGED <<created, action, projectId, deploying, pushes>>
                ELSE \E generated \in GeneratedNames :
                     LET name == OrElse(flags.newService, generated) IN
                     /\ out' = <<EmptyLine>>
                     /\ action' = "Creating service " \o name
                                    \o (IF local THEN " locally" ELSE "")
                                    \o " in cluster " \o c
                     /\ created' = Append(created,
                                     [name |-> name, alias |-> flags.alias,
                                      region |-> getRegionFromCluster(c)])
                     /\ pc' = "creating"
                     /\ failure' = failure
                     /\ UNCHANGED <<projectId, deploying, pushes>>
           ELSE /\ projectId' = target.id
                /\ StartDeploy(projectIsNew, targetName, target.id, local, LocalDefinition)
                /\ pc' = "pushing"
                /\ failure' = failure
                /\ out' = <<>>
                /\ UNCHANGED created
  /\ migrationResult' = NoResult
  /\ UNCHANGED <<flags, env, rcFile, targetName, target, projectIsNew, lookedUp, tasks>>
  /\ UNCHANGED fileVars

\* run(), line 80: definition.load() rejects; run() ends with the error
LoadDefinitionFails ==
  /\ pc = "load"
  /\ pc' = "failed"
  /\ failure' = "DefinitionError"
  /\ out' = <<>>
  /\ migrationResult' = NoResult
  /\ UNCHANGED <<flags, env, rcFile, runVars, lookedUp, created, deploying, definition,
                 action, pushes, tasks>>
  /\ UNCHANGED fileVars

\* createProject(), lines 158-162, and run(), lines 101-105: client.createProject
\* resolves with the new id; the target is registered and run() suspends in setLocalTarget
CreateProjectReturns ==
  /\ pc = "creating"
  /\ action' = ""
  /\ projectId' = CreatedProjectId
  /\ projectIsNew' = TRUE
  /\ env' = setLocalTarget(env, targetName, cluster, CreatedProjectId)
  /\ pc' = "registered"
  /\ out' = <<>>
  /\ migrationResult' = NoResult
  /\ UNCHANGED <<failure, flags, rcFile, targetName, target, cluster, isLocal, lookedUp, created,
                 deploying, definition, pushes, tasks>>
  /\ UNCHANGED fileVars

\* createProject(), line 151 wrapped in a catch that drops the rejection: run()
\* carries on at line 105 as if a project had been created
CreateProjectFailureSwallowed ==
  /\ pc = "creating"
  /\ pc' = "registered"
  /\ failure' = "RemoteCreateError"
  /\ out' = <<>>
  /\ migrationResult' = NoResult
  /\ UNCHANGED <<flags, env, rcFile, runVars, lookedUp, created, deploying, definition,
                 action, pushes, tasks>>
  /\ UNCHANGED fileVars

\* createProject(), line 151: client.createProject rejects; nothing catches it
CreateProjectFails ==
  /\ pc = "creating"
  /\ pc' = "failed"
  /\ failure' = "RemoteCreateError"
  /\ out' = <<>>
  /\ migrationResult' = NoResult
  /\ UNCHANGED <<flags, env, rcFile, runVars, lookedUp, created, deploying, definition,
                 action, pushes, tasks>>
  /\ UNCHANGED fileVars

\* run(), lines 107-119 with the test of line 107 left out: the new target becomes
\* the default even when a default exists
RegisterAndDeployOverwritingDefault ==
  /\ pc = "registered"
  /\ LET e == setLocalDefaultTarget(env, targetName)
     IN /\ env' = e
        /\ rcFile' = [saves |-> rcFile.saves + 1, targets |-> e.targets, default |-> e.default]
  /\ StartDeploy(projectIsNew, targetName, projectId, isLocal, definition)
  /\ pc' = "pushing"
  /\ out' = <<>>
  /\ migrationResult' = NoResult
  /\ UNCHANGED <<failure, flags, runVars, lookedUp, created, definition, tasks>>
  /\ UNCHANGED fileVars

\* run(), lines 107-119: default target, saveLocalRC, then deploy() up to client.push
RegisterAndDeploy ==
  /\ pc = "registered"
  /\ LET e == IF ~Truthy(env.default) THEN setLocalDefaultTarget(env, targetName) ELSE env
     IN /\ env' = e
        /\ rcFile' = [saves |-> rcFile.saves + 1, targets |-> e.targets, default |-> e.default]
  /\ StartDeploy(projectIsNew, targetName, projectId, isLocal, definition)
  /\ pc' = "pushing"
  /\ out' = <<>>
  /\ migrationResult' = NoResult
  /\ UNCHANGED <<failure, flags, runVars, lookedUp, created, definition, tasks>>
  /\ UNCHANGED fileVars

\* ---------------------------------------------------------------- deploy(), second half
\* deploy(), lines 192-248 applied to the state; `after` is what the caller logs
\* once deploy() has returned
ApplyResult(h, r, after) ==
  /\ action' = ""
  /\ out' = h.lines \o after
  /\ migrationResult' = r
  /\ definition' = IF h.set THEN r.projectDefinition ELSE definition
  /\ deploying' = IF h.cleared THEN FALSE ELSE deploying

\* deploy(), lines 192-248 and run(), lines 121-132: the push of the first deploy
\* resolves; with --watch the watcher is installed once deploy() has returned
InitialPushReturns ==
  /\ pc = "pushing"
  /\ \E r \in MigrationResults :
       LET h == handleResult(r, projectIsNew, projectId) IN
       /\ ApplyResult(h, r, IF ~h.threw /\ flags.watch THEN <<WatchingLine>> ELSE <<>>)
       /\ failure' = IF h.threw THEN "TypeError" ELSE failure
       /\ pc' = IF h.threw THEN "failed" ELSE IF flags.watch THEN "watching" ELSE "done"
  /\ UNCHANGED <<flags, env, rcFile, runVars, lookedUp, created, pushes, tasks>>
  /\ UNCHANGED fileVars

\* deploy(), line 186: the push of the first deploy rejects; deploy() and run() end
\* with the error
InitialPushFails ==
  /\ pc = "pushing"
  /\ pc' = "failed"
  /\ failure' = "RemotePushError"
  /\ out' = <<>>
  /\ migrationResult' = NoResult
  /\ UNCHANGED <<flags, env, rcFile, runVars, lookedUp, created, deploying, definition,
                 action, pushes, tasks>>
  /\ UNCHANGED fileVars

\* ---------------------------------------------------------------- watch callbacks
\* a task is one callback handed to setImmediate:
\*   pc:    scheduled, loading, pushing, done, dropped, failed
\*   guard: what `this.deploying` was when line 125 read it ("unread" before that)
NewTask == [pc |-> "scheduled", guard |-> "unread"]

TaskIds == 1..Len(tasks)

\* lines 121-132 with the watcher installed before anything else: a change is
\* reported whatever run() is doing, with or without --watch
ChangeEventAnytime ==
  /\ Len(tasks) < MaxEvents
  /\ tasks' = Append(tasks, NewTask)
  /\ out' = <<>>
  /\ migrationResult' = NoResult
  /\ UNCHANGED <<failure, flags, env, rcFile, pc, runVars, lookedUp, created, deploying,
                 definition, action, pushes>>
  /\ UNCHANGED fileVars

\* run(), lines 123-124: chokidar reports a change; the callback is scheduled
ChangeEvent ==
  /\ pc = "watching"
  /\ Len(tasks) < MaxEvents
  /\ tasks' = Append(tasks, NewTask)
  /\ out' = <<>>
  /\ migrationResult' = NoResult
  /\ UNCHANGED <<failure, flags, env, rcFile, pc, runVars, lookedUp, created, deploying, definition,
                 action, pushes>>
  /\ UNCHANGED fileVars

\* the guard of the callback left out: a change during a deploy is not dropped
MayDeployAlways(flag) == TRUE

\* run(), line 125: the guard of the callback
MayDeploy(flag) == ~flag

\* run(), lines 124-126: the oldest scheduled callback runs; it reads the flag and
\* either ends or suspends in definition.load
RunCallback(i) ==
  /\ tasks[i].pc = "scheduled"
  /\ \A j \in 1..(i - 1) : tasks[j].pc # "scheduled"
  /\ tasks' = [tasks EXCEPT ![i] =
                 [pc |-> IF MayDeploy(deploying) THEN "loading" ELSE "dropped",
                  guard |-> IF deploying THEN "deploying" ELSE "idle"]]
  /\ out' = <<>>
  /\ migrationResult' = NoResult
  /\ UNCHANGED <<failure, flags, env, rcFile, pc, runVars, lookedUp, created, deploying, definition,
                 action, pushes>>
  /\ UNCHANGED fileVars

\* run(), lines 126-127: definition.load() resolves; deploy() is entered and suspends
\* in client.push
CallbackLoaded(i) ==
  /\ tasks[i].pc = "loading"
  /\ definition' = LocalDefinition
  /\ StartDeploy(projectIsNew, targetName, projectId, isLocal, LocalDefinition)
  /\ tasks' = [tasks EXCEPT ![i].pc = "pushing"]
  /\ out' = <<>>
  /\ migrationResult' = NoResult
  /\ UNCHANGED <<failure, flags, env, rcFile, pc, runVars, lookedUp, created>>
  /\ UNCHANGED fileVars

\* run(), line 126: definition.load() rejects; the callback ends with the error
CallbackLoadFails(i) ==
  /\ tasks[i].pc = "loading"
  /\ tasks' = [tasks EXCEPT ![i].pc = "failed"]
  /\ out' = <<>>
  /\ migrationResult' = NoResult
  /\ UNCHANGED <<failure, flags, env, rcFile, pc, runVars, lookedUp, created, deploying, definition,
                 action, pushes>>
  /\ UNCHANGED fileVars

\* deploy(), lines 192-248, run(), line 128: the push resolves, the result is
\* reported, and if deploy() returned the callback logs that it is watching again
CallbackPushReturns(i) ==
  /\ tasks[i].pc = "pushing"
  /\ \E r \in MigrationResults :
       LET h == handleResult(r, projectIsNew, projectId) IN
       /\ ApplyResult(h, r, IF h.threw THEN <<>> ELSE <<WatchingLine>>)
       /\ tasks' = [tasks EXCEPT ![i].pc = IF h.threw THEN "failed" ELSE "done"]
  /\ UNCHANGED <<failure, flags, env, rcFile, pc, runVars, lookedUp, created, pushes>>
  /\ UNCHANGED fileVars

\* deploy(), line 186: the push rejects; deploy() and the callback end with the error
CallbackPushFails(i) ==
  /\ tasks[i].pc = "pushing"
  /\ tasks' = [tasks EXCEPT ![i].pc = "failed"]
  /\ out' = <<>>
  /\ migrationResult' = NoResult
  /\ UNCHANGED <<failure, flags, env, rcFile, pc, runVars, lookedUp, created, deploying, definition,
                 action, pushes>>
  /\ UNCHANGED fileVars

\* ---------------------------------------------------------------- callers of utils/file.ts
\* a caller reads the id of the project file
ReadProjectId ==
  /\ readResult.op = "none"
  /\ readResult' = [op |-> "readProjectId", value |-> readProjectIdFromProjectFile(contents),
                    info |-> NoInfo]
  /\ UNCHANGED <<flags, env, rcFile, pc, failure, runVars, lookedUp, created, deploying,
                 definition, action, out, migrationResult, pushes, tasks, contents>>

\* a caller reads the version of the project file
ReadVersion ==
  /\ readResult.op = "none"
  /\ readResult' = [op |-> "readVersion", value |-> readVersionFromProjectFile(contents),
                    info |-> NoInfo]
  /\ UNCHANGED <<flags, env, rcFile, pc, failure, runVars, lookedUp, created, deploying,
                 definition, action, out, migrationResult, pushes, tasks, contents>>

\* a caller reads the schema of the project file
ReadDataModel ==
  /\ readResult.op = "none"
  /\ readResult' = [op |-> "readDataModel", value |-> readDataModelFromProjectFile(contents),
                    info |-> NoInfo]
  /\ UNCHANGED <<flags, env, rcFile, pc, failure, runVars, lookedUp, created, deploying,
                 definition, action, out, migrationResult, pushes, tasks, contents>>

\* a caller reads id, version and schema of the project file
ReadProjectInfo ==
  /\ readResult.op = "none"
  /\ readResult' = [op |-> "readProjectInfo", value |-> Undefined,
                    info |-> readProjectInfoFromProjectFile(contents)]
  /\ UNCHANGED <<flags, env, rcFile, pc, failure, runVars, lookedUp, created, deploying,
                 definition, action, out, migrationResult, pushes, tasks, contents>>

\* ---------------------------------------------------------------- specification
Next ==
  \/ Resolve
  \/ EnsureAuth
  \/ EnsureAuthFails
  \/ LoadDefinition
  \/ LoadDefinitionFails
  \/ CreateProjectReturns
  \/ CreateProjectFails
  \/ RegisterAndDeploy
  \/ InitialPushFails
  \/ InitialPushReturns
  \/ ChangeEvent
  \/ \E i \in TaskIds : RunCallback(i)
  \/ \E i \in TaskIds : CallbackLoaded(i)
  \/ \E i \in TaskIds : CallbackLoadFails(i)
  \/ \E i \in TaskIds : CallbackPushFails(i)
  \/ \E i \in TaskIds : CallbackPushReturns(i)

\* run() alone, for every combination of flags and local configuration: the
\* watcher, when installed, reports no change
NextRun ==
  \/ Resolve
  \/ EnsureAuth
  \/ EnsureAuthFails
  \/ LoadDefinition
  \/ LoadDefinitionFails
  \/ CreateProjectReturns
  \/ CreateProjectFails
  \/ RegisterAndDeploy
  \/ InitialPushFails
  \/ InitialPushReturns

SpecRun == Init /\ [][NextRun]_vars

\* `graphcool deploy --watch --target prod`, with and without --force, where prod
\* is the default target of .graphcoolrc: for the existing service, and with
\* --new-service for a service that is created first
WatchInit ==
  /\ Init
  /\ flags.watch
  /\ flags.target = "prod"
  /\ flags.newServiceCluster = Undefined
  /\ env.default = "prod"

\* `graphcool deploy --target prod` with and without --watch and --force, where
\* prod is the default target of .graphcoolrc, with the watcher's callbacks
DeployInit ==
  /\ Init
  /\ flags.target = "prod"
  /\ flags.newServiceCluster = Undefined
  /\ env.default = "prod"

SpecDeploy == DeployInit /\ [][Next]_vars

\* the read functions of utils/file.ts, each applied to every project file of up
\* to MaxLen tokens; the deploy command does not run
FileInit ==
  /\ flags = [target |-> Undefined, force |-> FALSE, watch |-> FALSE, newService |-> Undefined,
              newServiceCluster |-> Undefined, alias |-> "my-alias"]
  /\ env = [activeCluster |-> SharedCluster, targets |-> NoTargets, default |-> Undefined]
  /\ rcFile = [saves |-> 0, targets |-> env.targets, default |-> env.default]
  /\ pc = "start"
  /\ failure = ""
  /\ targetName = Undefined
  /\ target = NoTarget
  /\ cluster = Undefined
  /\ isLocal = FALSE
  /\ projectId = Undefined
  /\ projectIsNew = FALSE
  /\ lookedUp = FALSE
  /\ created = <<>>
  /\ deploying = FALSE
  /\ definition = Undefined
  /\ action = ""
  /\ out = <<>>
  /\ migrationResult = NoResult
  /\ pushes = <<>>
  /\ tasks = <<>>
  /\ contents \in FileContents
  /\ readResult = NoRead

FileNext ==
  \/ ReadProjectId
  \/ ReadVersion
  \/ ReadDataModel
  \/ ReadProjectInfo

SpecFile == FileInit /\ [][FileNext]_vars

Spec == WatchInit /\ [][Next]_vars

TypeOK ==
  /\ deploying \in BOOLEAN
  /\ pc \in {"start", "auth", "load", "creating", "registered", "pushing", "watching",
             "done", "failed"}
  /\ Len(pushes) <= MaxEvents + 1

\* ---------------------------------------------------------------- observations
\* number of pushes that have been issued and have neither resolved nor rejected
InFlight ==
  (IF pc = "pushing" THEN 1 ELSE 0) + Cardinality({i \in TaskIds : tasks[i].pc = "pushing"})

\* number of callbacks suspended in definition.load
Loading == Cardinality({i \in TaskIds : tasks[i].pc = "loading"})

\* number of pushes issued by watch callbacks: all but the first push of the run
WatchDeploys == IF Len(pushes) = 0 THEN 0 ELSE Len(pushes) - 1

\* how often a line occurs in a sequence of lines
Count(lines, line) == Cardinality({k \in 1..Len(lines) : lines[k] = line})

\* what deploy() itself wrote in the last step: the caller's `Watching for change...`
\* comes after it
DeployOutput ==
  IF out # <<>> /\ out[Len(out)] = WatchingLine THEN SubSeq(out, 1, Len(out) - 1) ELSE out

\* a step in which the deploy of callback i ends, by returning or by throwing
WatchDeployEnds(i) == tasks[i].pc = "pushing" /\ tasks'[i].pc # "pushing"

\* a step in which some deploy ends, by returning or by throwing
DeployEnds == (pc = "pushing" /\ pc' # "pushing") \/ \E i \in TaskIds : WatchDeployEnds(i)

\* a step in which callback i reads the flag
GuardEvaluated(i) == tasks[i].pc = "scheduled" /\ tasks'[i].pc # "scheduled"

\* ---------------------------------------------------------------- claims
\* C1: at most one push is in flight at any time, also when change events arrive
\* in a burst while the orchestrator is idle.
\* The code reads the flag before `await definition.load` and sets it after, so
\* two callbacks of one burst both pass the guard: TLC finds this violated.
C1_AtMostOneDeployInFlight == InFlight <= 1

\* C2: whenever no deploy is in flight (before the first deploy and after every
\* deploy has ended, normally or by an exception) the deploying flag is false.
\* The code clears the flag only on the two normal exits of deploy(): TLC finds
\* this violated once a push rejects.
C2_FlagFalseOutsideDeploys == InFlight = 0 => ~deploying

\* C3: a callback that reads the flag while it is true is dropped: it loads no
\* definition, issues no push, changes nothing else, and stays dropped for ever;
\* and there are never more watch-triggered pushes than callbacks that read the
\* flag as false.
C3_DroppedNotQueued ==
  /\ [](WatchDeploys <= Cardinality({i \in TaskIds : tasks[i].guard = "idle"}))
  /\ [][\A i \in TaskIds :
          /\ (GuardEvaluated(i) /\ deploying)
               => /\ tasks'[i].pc = "dropped"
                  /\ UNCHANGED <<definition, pushes, deploying, action, pc>>
          /\ tasks[i].pc = "dropped" => tasks'[i] = tasks[i]]_vars

\* a change was dropped during a deploy, that deploy and all others have ended
\* normally, and only the deploys of the other events were ever started
C3_Witness ==
  /\ \E i \in TaskIds : tasks[i].pc = "dropped"
  /\ \E i \in TaskIds : tasks[i].pc = "done"
  /\ \A i \in TaskIds : tasks[i].pc \in {"dropped", "done"}
  /\ Len(tasks) = MaxEvents
  /\ ~deploying
  /\ WatchDeploys < Len(tasks)

\* C4: every step that ends a deploy, whatever the outcome (also a rejected push),
\* writes the endpoint of the project exactly once.
\* A rejected push ends deploy() before anything is written: TLC finds this violated.
C4_EndpointOncePerDeploy ==
  [][DeployEnds => Count(out', EndpointLine(projectId)) = 1]_vars

\* C5: for a result whose lists are both present, the data-loss hint is written
\* exactly once if some error, at any position, has a description with the
\* destructive-change marker, and not at all otherwise.
\* The code looks at errors[0] only: TLC finds this violated.
C5_HintOnceForAnyDestructiveError ==
  (migrationResult # NoResult /\ migrationResult.migrationMessages.present
     /\ migrationResult.errors.present)
  => Count(out, ForceHint) =
       (IF \E k \in 1..Len(migrationResult.errors.list) :
             IncludesDestructive(migrationResult.errors.list[k])
        THEN 1 ELSE 0)

\* C6: a step that handles a result with empty migrationMessages and empty errors
\* writes exactly the up-to-date line and then the endpoint, leaves the in-memory
\* definition as it was, has deploy() return, and leaves the flag false.
C6_NoOpReport ==
  [][(/\ migrationResult' # NoResult
      /\ migrationResult'.migrationMessages = Present(<<>>)
      /\ migrationResult'.errors = Present(<<>>))
     => /\ DeployOutput' = <<UpToDateLine, EndpointLine(projectId)>>
        /\ definition' = definition
        /\ ~deploying'
        /\ \/ pc = "pushing" /\ pc' \in {"watching", "done"}
           \/ \E i \in TaskIds : tasks[i].pc = "pushing" /\ tasks'[i].pc = "done"]_vars

\* a no-op result was just reported while the definition is one that an earlier
\* deploy took over from the server
C6_Witness ==
  /\ migrationResult # NoResult
  /\ migrationResult.migrationMessages = Present(<<>>)
  /\ migrationResult.errors = Present(<<>>)
  /\ DeployOutput = <<UpToDateLine, EndpointLine(projectId)>>
  /\ definition \in ServerDefinitions
  /\ ~deploying

C8_WatchingAgainAfterEveryDeploy ==
  [][\A i \in TaskIds :
       /\ WatchDeployEnds(i) => (out' # <<>> /\ out'[Len(out')] = WatchingLine)
       /\ (GuardEvaluated(i) /\ InFlight = 0 /\ Loading = 0) => tasks'[i].pc = "loading"]_vars

\* C9: with --new-service no target is looked up and none is used; the cluster is
\* the active cluster, which is --new-service-cluster when that is given; the
\* target name is --target when given and the default name of the cluster
\* otherwise; and the run goes on to create a project of the given name, which
\* is the project every push goes to.
C9_NewServiceAlwaysCreates ==
  (Truthy(flags.newService) /\ pc # "start")
  => /\ ~lookedUp
     /\ target = NoTarget
     /\ cluster = env.activeCluster
     /\ Truthy(flags.newServiceCluster) => cluster = flags.newServiceCluster
     /\ targetName = (IF Truthy(flags.target) THEN flags.target
                      ELSE IF cluster = SharedCluster THEN "prod" ELSE "dev")
     /\ failure # "ServiceDoesntExistError"
     /\ pc \in {"creating", "registered", "pushing", "watching", "done"}
          => (Len(created) = 1 /\ created[1].name = flags.newService)
     /\ Len(pushes) > 0
          => (projectIsNew /\ \A k \in 1..Len(pushes) : pushes[k].projectId = CreatedProjectId)

\* --new-service with --new-service-cluster and a --target that exists locally:
\* the project is being created in the given cluster
C9_Witness ==
  /\ Truthy(flags.newService)
  /\ Truthy(flags.newServiceCluster)
  /\ flags.target = "prod"
  /\ env.targets["prod"] = ProdTarget
  /\ pc = "creating"
  /\ Len(created) = 1
  /\ cluster = flags.newServiceCluster

NewMapping == [cluster |-> cluster, id |-> CreatedProjectId]

\* C11: after a project was created the mapping targetName -> cluster/projectId,
\* with the id the remote createProject returned, is registered; the target becomes
\* the local default only if no default existed and an existing default is never
\* overwritten; and the local configuration, holding mapping and default, has been
\* saved exactly once by the time the first push is issued
C11_RegisteredAndSavedBeforeFirstPush ==
  /\ [](projectIsNew
          => /\ projectId = CreatedProjectId
             /\ env.targets[targetName] = NewMapping
             /\ pc = "registered" => (rcFile.saves = 0 /\ pushes = <<>>)
             /\ Len(pushes) > 0
                  => /\ rcFile.saves = 1
                     /\ rcFile.targets[targetName] = NewMapping
                     /\ rcFile.default = env.default)
  /\ [][/\ Truthy(env.default) => env'.default = env.default
        /\ (pc = "registered" /\ ~Truthy(env.default)) => env'.default = targetName
        /\ pc # "registered" => env'.default = env.default]_vars

\* --new-service --target dev while "prod" is the default: the first push is out,
\* "dev" is registered and saved, and "prod" is still the default
C11_Witness ==
  /\ projectIsNew
  /\ Len(pushes) = 1
  /\ targetName = "dev"
  /\ rcFile.saves = 1
  /\ rcFile.targets["dev"] = [cluster |-> cluster, id |-> CreatedProjectId]
  /\ rcFile.default = "prod"
  /\ env.default = "prod"

\* ---------------------------------------------------------------- C12
\* C12: when the remote createProject call fails the failure ends the run: no target
\* mapping is registered and no default is set (the environment's targets and default
\* are still those of the configuration file as it was read), the configuration is
\* not saved, no push is issued, the deploying flag is false, no watcher work exists,
\* and the run takes no further step
C12_CreateFailurePropagates ==
  /\ [](failure = "RemoteCreateError"
          => /\ pc = "failed"
             /\ ~projectIsNew
             /\ projectId = Undefined
             /\ env.targets = rcFile.targets
             /\ env.default = rcFile.default
             /\ rcFile.saves = 0
             /\ pushes = <<>>
             /\ ~deploying
             /\ tasks = <<>>)
  /\ [][failure # "RemoteCreateError"]_vars

\* --new-service --watch with a failing createProject: the request was made and the
\* run has ended with the error
C12_Witness ==
  /\ failure = "RemoteCreateError"
  /\ Len(created) = 1
  /\ Truthy(flags.newService)
  /\ flags.watch
  /\ pc = "failed"

\* ---------------------------------------------------------------- C13
\* the three headers that may precede the migration messages
MessageHeaders == {CreatedHeader, UpdatedErrorHeader, UpdatedSuccessHeader}

\* how many of the lines carry one of the given kinds or texts
CountIn(lines, S) == Cardinality({k \in 1..Len(lines) : lines[k] \in S})

\* how many of the lines are entries of the given kind ("message" or "error")
CountKind(lines, kind) == Cardinality({k \in 1..Len(lines) : lines[k][1] = kind})

\* the header C13 expects for a result with messages
ExpectedHeader(r, isNew) ==
  IF isNew THEN CreatedHeader
  ELSE IF r.errors.list # <<>> THEN UpdatedErrorHeader ELSE UpdatedSuccessHeader

IdLineAt(c) == IndexOf(c, ProjectPrefix) + 1

\* the file has an id line and the text after `# project: ` starts with a
\* lowercase alphanumeric id
IdLineWellFormed(c) ==
  /\ IdLineAt(c) > 0
  /\ IdLineAt(c) < Len(c)
  /\ c[IdLineAt(c) + 1] \in LowerAlnum

\* C14: readProjectIdFromProjectFile returns the id when the id line is well formed
\* and undefined when the line is absent or malformed (the text after `# project: `
\* does not start with a lowercase alphanumeric id); readProjectInfoFromProjectFile
\* returns undefined in exactly those cases.
\* The expression ([a-z0-9]*) also matches nothing, so an id line followed by
\* anything else, or by nothing, yields the empty string and not undefined: TLC
\* finds this violated.
C14_UndefinedWhenAbsentOrMalformed ==
  /\ readResult.op = "readProjectId"
       => IF IdLineWellFormed(contents)
          THEN readResult.value = Text(Capture(contents, IdLineAt(contents) + 1))
          ELSE readResult.value = Undefined
  /\ readResult.op = "readProjectInfo"
       => (readResult.info.defined <=> IdLineWellFormed(contents))

\* ---------------------------------------------------------------- C15
\* nothing but line breaks
EffectivelyEmpty(c) == \A k \in 1..Len(c) : c[k] = NewLine

\* C15: readDataModelFromProjectFile returns the text from the first `type` to
\* the end of the file, and an effectively empty string (nothing but white space)
\* when the file holds no `type`.
\* Without a `type` indexOf gives -1 and substring(-1, length) is the whole file:
\* TLC finds this violated.
C15_SchemaFromFirstType ==
  readResult.op = "readDataModel"
    => IF \E k \in 1..Len(contents) : contents[k] = TypeToken
       THEN readResult.value
              = Text(SubSeq(contents, IndexOf(contents, TypeToken) + 1, Len(contents)))
       ELSE \E c \in FileContents : EffectivelyEmpty(c) /\ readResult.value = Text(c)

\* ---------------------------------------------------------------- C17
\* C17: whatever the result of the first push, with migrationMessages and errors each
\* absent, empty or non-empty, its handling completes: run() has not failed, the
\* flag is false, the endpoint is printed once, every error of a non-empty errors
\* list is printed, and for non-empty migrationMessages every message is printed
\* and the definition is the one the server sent.
\* `migrationMessages.length` (line 208) and `errors.length` (lines 213, 223) are
\* read without a test for absence and throw a TypeError: TLC finds this violated.
C17_AbsentListsHandledLikeEmpty ==
  migrationResult # NoResult
    => /\ pc # "failed"
       /\ failure = ""
       /\ ~deploying
       /\ Count(out, EndpointLine(projectId)) = 1
       /\ CountKind(out, "error") = Len(migrationResult.errors.list)
       /\ CountKind(out, "message") = Len(migrationResult.migrationMessages.list)
       /\ migrationResult.migrationMessages.list # <<>>
            => definition = migrationResult.projectDefinition

\* ---------------------------------------------------------------- C18
\* C18: once a run has created a project, the name the mapping is registered under
\* is a defined, non-empty name, nothing is registered under `undefined`, and
\* once line 108 is passed a default target is defined.
\* Without --new-service targetName is assigned only when the lookup finds a
\* target (lines 72-76); when it finds none the run creates a project and calls
\* setLocalTarget(undefined, ...): TLC finds this violated.
C18_TargetNameDefinedAtCreation ==
  projectIsNew
    => /\ Truthy(targetName)
       /\ targetName \in TargetNames
       /\ env.targets[Undefined] = NoTarget
       /\ pc # "registered" => Truthy(env.default)

\* ---------------------------------------------------------------- C19
\* C19: a run calls createProject at most once and saves the local configuration at
\* most once; from the first push on, the created projects, the registered
\* targets, the default target, the saved configuration and the projectId never
\* change again, so no watch-triggered cycle creates or writes anything; and every
\* push, first or watch-triggered, carries the run's projectId, the --force flag
\* and dryRun = false.
C19_CreateAndWriteOnceBeforeFirstPush ==
  /\ [](/\ Len(created) <= 1
        /\ rcFile.saves <= 1
        /\ \A k \in 1..Len(pushes) :
             /\ pushes[k].projectId = projectId
             /\ pushes[k].force = flags.force
             /\ pushes[k].dryRun = FALSE)
  /\ [][pushes # <<>>
          => /\ created' = created
             /\ env' = env
             /\ rcFile' = rcFile
             /\ projectId' = projectId
             /\ flags' = flags
             /\ Len(pushes') >= Len(pushes)
             /\ SubSeq(pushes', 1, Len(pushes)) = pushes]_vars

\* a project was created and registered, the first deploy went through, and a
\* watch-triggered deploy has pushed to the same project
C19_Witness ==
  /\ Len(created) = 1
  /\ rcFile.saves = 1
  /\ projectIsNew
  /\ Len(pushes) = 2
  /\ pushes[2].projectId = CreatedProjectId
  /\ pushes[2].force = flags.force
  /\ flags.force
  /\ \E i \in TaskIds : tasks[i].pc = "done"

\* ---------------------------------------------------------------- C20
\* C20: the watcher exists (run() is at `watching`) only with --watch and only
\* after the first deploy has returned normally: the step that installs it is the
\* one in which the first push returns, its result is handled without an
\* exception and the flag is cleared. Callbacks exist only while the watcher
\* does, so none runs while the first push is in flight; and without --watch, or
\* when the run has failed, there are no callbacks and no push but the first.
C20_WatcherOnlyAfterInitialDeploy ==
  /\ [](/\ pc = "watching" => (flags.watch /\ Len(pushes) >= 1 /\ failure = "")
        /\ tasks # <<>> => pc = "watching"
        /\ pc = "pushing" => (tasks = <<>> /\ Len(pushes) = 1)
        /\ (~flags.watch \/ pc = "failed") => (tasks = <<>> /\ Len(pushes) <= 1))
  /\ [][(pc # "watching" /\ pc' = "watching")
          => /\ pc = "pushing"
             /\ flags.watch
             /\ migrationResult' # NoResult
             /\ ~deploying'
             /\ failure' = ""]_vars

\* with --watch, after the first deploy, a change has led to a second push that is
\* in flight
C20_Witness ==
  /\ flags.watch
  /\ pc = "watching"
  /\ Len(pushes) = 2
  /\ \E i \in TaskIds : tasks[i].pc = "pushing"

\* without --watch the run has ended after its only push
C20_WitnessNoWatch ==
  /\ ~flags.watch
  /\ pc = "done"
  /\ Len(pushes) = 1
  /\ tasks = <<>>

\* ---------------------------------------------------------------- C16
\* the push of callback i returns in this step (with whatever result)
WatchPushReturns(i) ==
  tasks[i].pc = "pushing" /\ tasks'[i].pc # "pushing" /\ migrationResult' # NoResult

\* C16: a watch callback that reads the flag as false starts a deploy cycle: it goes
\* on to reload the definition; when the load returns the definition is the
\* reloaded one, the flag is set and one push for the run's projectId is issued;
\* and when that push returns the cycle ends with the flag false.
\* A push that returns a result with an absent list ends in the TypeError of C17
\* before the flag is cleared: TLC finds this violated.
C16_WatchCycleReturnsToIdle ==
  [][\A i \in TaskIds :
       /\ (GuardEvaluated(i) /\ ~deploying) => tasks'[i].pc = "loading"
       /\ (tasks[i].pc = "loading" /\ tasks'[i].pc = "pushing")
            => /\ definition' = LocalDefinition
               /\ deploying'
               /\ pushes' = Append(pushes, pushes'[Len(pushes')])
               /\ pushes'[Len(pushes')].projectId = projectId
               /\ pushes'[Len(pushes')].definition = LocalDefinition
       /\ WatchPushReturns(i)
            => /\ tasks'[i].pc = "done"
               /\ ~deploying']_vars

====
